---- MODULE Spec2Model ----
(***************************************************************************)
(* Model of freecad.workbench_ros: the Robot group object (robot.py) and   *)
(* its reconciliation of level-of-detail proxies (App::Link objects) in    *)
(* the Groups of the Ros::Link members of robot.Group.                     *)
(*                                                                         *)
(* A document object is identified by its Name, which the document keeps   *)
(* unique: the robot, the members of robot.Group (Ros::Link objects and    *)
(* other objects) and the App::Link proxies created by _add_links_lod.  A  *)
(* name is a triple <<base, number, ordinal>>: the proxy name              *)
(* f'{lod}_{link.Name}000' of link number n is <<lod, n, 0>>, and the      *)
(* document makes a name unique by counting the ordinal up.  Source        *)
(* objects (the entries of link.Real, link.Visual, link.Collision) are     *)
(* strings.                                                                *)
(***************************************************************************)
EXTENDS Integers, Sequences, FiniteSets, TLC

\* Bounds of the model.
MaxTotal == 2      \* total number of entries of all Real/Visual/Collision lists
MaxOps == 6        \* number of operations made on the robot after the lists are filled

\* The document objects.
RobotId == <<"Robot", 1, 0>>
L1 == <<"Link", 1, 0>>
L2 == <<"Link", 2, 0>>
J1 == <<"Joint", 1, 0>>
Links == {L1, L2}          \* Ros::Link objects of the document
Rest == {J1}               \* other objects that can be members of robot.Group
Members == Links \cup Rest

\* The source objects, and o.Parents of each as the sequence of the placements
\* parent.getSubObject(subname, retType=3) of its (parent, subname) pairs.
Sources == {"a", "b", "z", "m"}
NoSource == "none"
Identity == "identity"
Parents(o) ==
    CASE o = "a" -> <<"pl_a">>
      [] o = "b" -> <<"pl_b">>
      [] o = "z" -> <<>>
      [] o = "m" -> <<"pl_m1", "pl_m2">>

FlagProps == {"ShowReal", "ShowVisual", "ShowCollision"}
Lods == {"real", "visual", "collision"}
None == <<"None", 0, 0>>

VARIABLES
    hasRobot,     \* hasattr(self, 'robot')
    props,        \* the flag properties that exist on the robot object
    flags,        \* robot.ShowReal, robot.ShowVisual, robot.ShowCollision
    robotGroup,   \* robot.Group
    lists,        \* lists[l][lod]: link.Real, link.Visual, link.Collision
    objs,         \* the App::Link objects of the document
    group,        \* group[l]: link.Group
    log,          \* the reset_group passes run by the last operation
    ops,          \* the number of operations made on the robot so far
    joint,        \* the Ros::Joint object (its properties)
    called        \* the outcome of the last call of a Joint method

vars == <<hasRobot, props, flags, robotGroup, lists, objs, group, log, ops, joint,
         called>>

Range(s) == {s[i] : i \in 1..Len(s)}

SetMin(S) == CHOOSE x \in S : \A y \in S : x <= y

Obj(ob, id) == CHOOSE p \in ob : p.name = id

Remove(s, id) == SelectSeq(s, LAMBDA x : x # id)

(***************************************************************************)
(* The document (FreeCAD host) as robot.py uses it.                        *)
(***************************************************************************)

DocNames(ob) == {p.name : p \in ob} \cup Members \cup {RobotId}

\* doc.addObject('App::Link', name): the document keeps object names unique.
\* A free name is used as it is; for a name in use the document counts the
\* ordinal of the name up to a free one.
getUniqueObjectName(name, used) ==
    IF name \notin used THEN name
    ELSE LET free == {k \in 1..Cardinality(used) : <<name[1], name[2], k>> \notin used}
         IN  <<name[1], name[2], SetMin(free)>>

\* Robot.onChanged is the change handler of the robot object only, and it
\* starts a pass for these properties (robot.py line 134).
OnChangedProps == {"Group", "ShowReal", "ShowVisual", "ShowCollision"}

\* A property change of `feature` made while a pass runs: it re-enters the
\* pass when it is delivered to Robot.onChanged with a property that resets.
Notify(w, feature, prop) ==
    IF feature = RobotId /\ prop \in OnChangedProps
    THEN [w EXCEPT !.reentries = @ + 1]
    ELSE w

\* lod_link registered in the robot: self.robot.addObject(lod_link).
AddObjectOwner_robot(link) == RobotId

\* The group object that lod_link is registered in: link.addObject(lod_link).
AddObjectOwner(link) == link

(***************************************************************************)
(* _existing_link and _add_links_lod                                       *)
(*                                                                         *)
(* A pass works on a record w: the objects and Groups (objs, group,        *)
(* rgroup), the list a call of _add_links_lod returns (ret),               *)
(* all_linked_objects (all), what the pass has done so far (created,       *)
(* reused, destroyed, warns, reentries) and whether an exception has left  *)
(* it (raised, failedOn).                                                  *)
(***************************************************************************)

\* _existing_link with a comparison that matches no member.
_existing_link_never(ob, g, o) == None

\* The first member of link.Group whose LinkedObject is o, or None.
_existing_link(ob, g, o) ==
    LET hits == {i \in 1..Len(g) : Obj(ob, g[i]).linked = o}
    IN  IF hits = {} THEN None ELSE g[SetMin(hits)]

\* warn is not among the names robot.py imports (lines 5-8): calling it
\* raises NameError.
WarnImported == FALSE

warn(w, o) ==
    IF WarnImported
    THEN [w EXCEPT !.warns = @ + 1]
    ELSE [w EXCEPT !.raised = TRUE, !.failedOn = o]

\* Lines 55-56.
WarnParents(w, o) == IF Len(Parents(o)) # 1 THEN warn(w, o) ELSE w

\* link_placement of lines 57-60.
link_placement(o) ==
    IF Parents(o) # <<>> THEN Parents(o)[1] ELSE Identity

\* Lines 47-49: the new App::Link with the name the document gives it and
\* the label f'{lod}_{link.Name}000'.
NewLodLink(w, link, lod) ==
    [name |-> getUniqueObjectName(<<lod, link[2], 0>>, DocNames(w.objs)),
     label |-> <<lod, link[2], 0>>,
     linked |-> NoSource,
     placement |-> Identity]

AddToDocument(w, p) ==
    [w EXCEPT !.objs = @ \cup {p}, !.created = Append(@, p.name),
              !.steps = Append(@, <<"create", p.label[1], {p.name}>>)]

\* Lines 61-65, for the object created last: link_placement, setLink(o),
\* link.addObject(lod_link), old_and_new_objects.append(lod_link).
BindAndRegister(w, owner, o, id) ==
    Notify([w EXCEPT !.objs = {IF p.name = id
                               THEN [p EXCEPT !.placement = link_placement(o),
                                              !.linked = o]
                               ELSE p : p \in @},
                     !.group = IF owner \in Links
                               THEN [@ EXCEPT ![owner] = Append(@, id)]
                               ELSE @,
                     !.rgroup = IF owner = RobotId THEN Append(@, id) ELSE @,
                     !.ret = Append(@, id)],
           owner, "Group")

AfterWarn(w, link, o) ==
    IF w.raised THEN w
    ELSE BindAndRegister(w, AddObjectOwner(link), o, w.created[Len(w.created)])

\* Lines 47-66: create the proxy of o in link.
CreateLodLink(w, link, o, lod) ==
    AfterWarn(WarnParents(AddToDocument(w, NewLodLink(w, link, lod)), o), link, o)

\* The iteration without old_and_new_objects.append(link_to_o) of line 45.
AddOne_reused_not_returned(w, link, o, lod, link_to_o) ==
    IF link_to_o # None
    THEN [w EXCEPT !.reused = Append(@, link_to_o),
                   !.steps = Append(@, <<"reuse", lod, {link_to_o}>>)]
    ELSE CreateLodLink(w, link, o, lod)

\* Lines 42-46 and 47-66: one iteration of the loop over objects.
AddOne(w, link, o, lod, link_to_o) ==
    IF link_to_o # None
    THEN [w EXCEPT !.ret = Append(@, link_to_o), !.reused = Append(@, link_to_o),
                   !.steps = Append(@, <<"reuse", lod, {link_to_o}>>)]
    ELSE CreateLodLink(w, link, o, lod)

RECURSIVE add_links_loop(_, _, _, _, _)
add_links_loop(w, link, objects, lod, i) ==
    IF i > Len(objects) \/ w.raised THEN w
    ELSE add_links_loop(AddOne(w, link, objects[i], lod,
                               _existing_link(w.objs, w.group[link], objects[i])),
                        link, objects, lod, i + 1)

\* _add_links_lod(link, objects, lod); its return value is .ret.
_add_links_lod(w, link, objects, lod) ==
    add_links_loop([w EXCEPT !.ret = <<>>], link, objects, lod, 1)

(***************************************************************************)
(* Robot.reset_group                                                       *)
(***************************************************************************)

\* utils.get_links: the Ros::Link members, in order.
get_links(g) == SelectSeq(g, LAMBDA m : m \in Links)

\* rest of line 146.
rest(g) == SelectSeq(g, LAMBDA m : m \notin Range(get_links(g)))

\* The guard of lines 140-143 with its first hasattr test only.
Uninitialized_ShowReal_only(ps) == "ShowReal" \notin ps

\* Lines 140-143.
Uninitialized(ps) ==
    \/ "ShowReal" \notin ps
    \/ "ShowVisual" \notin ps
    \/ "ShowCollision" \notin ps

\* Lines 149-152.
current_linked_objects(rg, gr) ==
    UNION {Range(gr[l]) : l \in Range(get_links(rg))}

\* The set difference of line 170 with its operands exchanged.
objects_to_remove_exchanged(current, all) == all \ current

\* Line 170.
objects_to_remove(current, all) == current \ all

\* l.Real, l.Visual, l.Collision as the second argument of _add_links_lod
\* in lines 159, 163, 167.
LodObjects(ls, l, lod) == ls[l][lod]

\* all_linked_objects += <the list _add_links_lod returned>
Accumulate(w) == IF w.raised THEN w ELSE [w EXCEPT !.all = @ \o w.ret]

\* for l in links: all_linked_objects += _add_links_lod(l, l.<list>, lod)
RECURSIVE AddLod(_, _, _, _, _)
AddLod(w, ls, links, lod, i) ==
    IF i > Len(links) \/ w.raised THEN w
    ELSE AddLod(Accumulate(_add_links_lod(w, links[i],
                                         LodObjects(ls, links[i], lod), lod)),
                ls, links, lod, i + 1)

\* The three blocks of lines 157-167, in their order.
Stages == << <<"ShowReal", "real">>, <<"ShowVisual", "visual">>,
             <<"ShowCollision", "collision">> >>

\* if self.robot.<flag>: for l in links: ...   (reading a missing property
\* raises AttributeError)
Stage(w, ps, fl, ls, links, p, lod) ==
    IF p \notin ps THEN [w EXCEPT !.raised = TRUE]
    ELSE IF fl[p] THEN AddLod(w, ls, links, lod, 1)
    ELSE w

RECURSIVE AddSelected(_, _, _, _, _, _)
AddSelected(w, ps, fl, ls, links, i) ==
    IF i > Len(Stages) \/ w.raised THEN w
    ELSE AddSelected(Stage(w, ps, fl, ls, links, Stages[i][1], Stages[i][2]),
                     ps, fl, ls, links, i + 1)

\* The Groups that hold the object named id.
Owners(w, id) ==
    {l \in Links : id \in Range(w.group[l])}
        \cup (IF id \in Range(w.rgroup) THEN {RobotId} ELSE {})

RECURSIVE NotifyOwners(_, _)
NotifyOwners(w, owners) ==
    IF owners = {} THEN w
    ELSE NotifyOwners(Notify(w, CHOOSE l \in owners : TRUE, "Group"),
                      owners \ {CHOOSE l \in owners : TRUE})

\* self.robot.Document.removeObject(name): the object leaves the document
\* and every Group that holds it; a name of no object raises.
removeObject(w, name) ==
    IF name \notin DocNames(w.objs) THEN [w EXCEPT !.raised = TRUE]
    ELSE NotifyOwners([w EXCEPT !.objs = {p \in @ : p.name # name},
                                !.group = [l \in Links |-> Remove(@[l], name)],
                                !.rgroup = Remove(@, name),
                                !.destroyed = @ \cup {name}],
                      Owners(w, name))

\* Lines 171-173: removeObject(o.Name) for every o of the set.  The loop
\* iterates a Python set, whose order is not determined; names are unique
\* and a removal touches no other object, so the document, the Groups and
\* the set of the destroyed objects are the same for every order.
RECURSIVE RemoveAll(_, _)
RemoveAll(w, ids) ==
    IF ids = {} \/ w.raised THEN w
    ELSE RemoveAll(removeObject(w, CHOOSE x \in ids : TRUE),
                   ids \ {CHOOSE x \in ids : TRUE})

\* The removals of lines 171-173 as one entry of the event trace: the set
\* of the objects removed, in no order.
RecordDestroyed(w) ==
    IF w.destroyed = {} THEN w
    ELSE [w EXCEPT !.steps = Append(@, <<"destroy", "none", w.destroyed>>)]

\* Lines 169-173.
RemoveStale(w, current) ==
    RecordDestroyed(RemoveAll(w, objects_to_remove(current, Range(w.all))))

\* What a pass did: whether a flag property was missing when it started,
\* how it ended ("uninit": returned at the guard of lines 140-143, "done":
\* ran to the end, "raised": left by an exception), the numbers of proxies
\* created, reused and destroyed, of warnings emitted and of re-entries of
\* Robot.onChanged, and the source object at which it raised.
PassRecord(ps, w, outcome) ==
    [missing |-> FlagProps \ ps # {},
     outcome |-> outcome,
     created |-> Len(w.created),
     reused |-> Len(w.reused),
     destroyed |-> Cardinality(w.destroyed),
     warns |-> w.warns,
     reentries |-> w.reentries,
     failedOn |-> w.failedOn]

PassResult(ps, w, outcome) ==
    [objs |-> w.objs, group |-> w.group, rgroup |-> w.rgroup,
     pass |-> PassRecord(ps, w, outcome)]

Finished(ps, w) == PassResult(ps, w, IF w.raised THEN "raised" ELSE "done")

StartOfPass(rg, ob, gr) ==
    [objs |-> ob, group |-> gr, rgroup |-> rg, ret |-> <<>>,
     all |-> <<>>, created |-> <<>>, reused |-> <<>>,
     destroyed |-> {}, warns |-> 0, reentries |-> 0,
     raised |-> FALSE, failedOn |-> NoSource, steps |-> <<>>]

\* Lines 145-173 with the removal of lines 169-173 moved before the
\* additions of lines 155-167.
PassWork_remove_first(ps, fl, rg, ls, ob, gr) ==
    AddSelected(RemoveStale(StartOfPass(rg, ob, gr), current_linked_objects(rg, gr)),
                ps, fl, ls, get_links(rg), 1)

\* Lines 145-173: the snapshot of the proxies of before the pass, the
\* additions, then the removal.  The field steps is the event trace of the
\* pass: one entry for each proxy created or reused, in the order of these
\* events and with the category of its _add_links_lod call, and one entry
\* for the removal loop with the set of the proxies it destroyed.
PassWork(ps, fl, rg, ls, ob, gr) ==
    RemoveStale(AddSelected(StartOfPass(rg, ob, gr), ps, fl, ls, get_links(rg), 1),
                current_linked_objects(rg, gr))

\* One reset_group pass on (props, flags, robot.Group, lists, objects,
\* link Groups): the state after it and the record of what it did.
reset_group(ps, fl, rg, ls, ob, gr) ==
    IF Uninitialized(ps)
    THEN PassResult(ps, StartOfPass(rg, ob, gr), "uninit")
    ELSE Finished(ps, PassWork(ps, fl, rg, ls, ob, gr))

(***************************************************************************)
(* Change notifications of the robot object                                *)
(***************************************************************************)

\* The state st after a pass with result r.
AfterPass(st, r) ==
    [st EXCEPT !.objs = r.objs, !.group = r.group, !.rgroup = r.rgroup,
               !.passes = Append(@, r.pass)]

\* Robot.onChanged on a state record st.
onChanged(st, hr, ls, prop) ==
    IF ~hr THEN st
    ELSE IF prop \in OnChangedProps
    THEN AfterPass(st, reset_group(st.props, st.flags, st.rgroup, ls,
                                   st.objs, st.group))
    ELSE st

\* The order of the assignments of lines 112-114.
PreviousOrder == <<"ShowReal", "ShowVisual", "ShowCollision">>

\* The attributes previous_show_* that lines 112-114 assign before the read
\* of a missing property raises the AttributeError that line 115 catches.
Recorded(ps) ==
    {PreviousOrder[k] : k \in {i \in 1..Len(PreviousOrder) :
                                 \A j \in 1..i : PreviousOrder[j] \in ps}}

\* Lines 111-116 on the attributes prev (a function from the flags whose
\* previous_show_* attribute exists to its value).
RecordPrevious(ps, fl, prev) ==
    [p \in (DOMAIN prev) \cup Recorded(ps) |->
        IF p \in Recorded(ps) THEN fl[p] ELSE prev[p]]

RecordIn(st) ==
    [st EXCEPT !.previous = RecordPrevious(st.props, st.flags, @)]

\* Robot.onBeforeChange with the commented call of lines 108-109 in place.
onBeforeChange_resets(st, hr, ls, prop) ==
    IF ~hr THEN st
    ELSE IF prop \in OnChangedProps
    THEN RecordIn(AfterPass(st, reset_group(st.props, st.flags, st.rgroup, ls,
                                            st.objs, st.group)))
    ELSE RecordIn(st)

\* Robot.onBeforeChange on a state record st.
onBeforeChange(st, hr, ls, prop) ==
    IF ~hr THEN st ELSE RecordIn(st)

\* robot.<p> = v: the notification before the change, the assignment, then
\* the change notification.  The document reports an exception of the
\* handler and keeps the new value.
SetProperty(st, hr, ls, p, v) ==
    onChanged([onBeforeChange(st, hr, ls, p) EXCEPT !.flags = [@ EXCEPT ![p] = v]],
              hr, ls, p)

\* add_property(obj, 'App::PropertyBool', p, ...).<p> = v
AddAndSet(st, hr, ls, p, v) ==
    SetProperty([st EXCEPT !.props = @ \cup {p}], hr, ls, p, v)

\* The flag properties of lines 89-94 and the values they are given.
Defaults == << <<"ShowReal", TRUE>>, <<"ShowVisual", FALSE>>,
               <<"ShowCollision", FALSE>> >>

RECURSIVE InitFlags(_, _, _, _)
InitFlags(st, hr, ls, i) ==
    IF i > Len(Defaults) THEN st
    ELSE InitFlags(AddAndSet(st, hr, ls, Defaults[i][1], Defaults[i][2]),
                   hr, ls, i + 1)

\* Robot.init_properties.  (The assignments of Type and of the other
\* properties notify properties that start no pass.)
init_properties(st, hr, ls) == InitFlags(st, hr, ls, 1)

\* robot.Group = g
SetGroup(st, hr, ls, g) ==
    onChanged([onBeforeChange(st, hr, ls, "Group") EXCEPT !.rgroup = g],
              hr, ls, "Group")

(***************************************************************************)
(* Joint (joint.py)                                                        *)
(*                                                                         *)
(* A placement is a rigid transform of the plane: a rotation by rot        *)
(* quarter turns followed by the translation (x, y).  The Ros::Joint       *)
(* object is a record of its properties: Label, Type, Origin, and Parent   *)
(* and Child, each a reference that is set or not; Parent carries whether  *)
(* its LinkedObject is set and the world placements of the entries of      *)
(* Parent.LinkedObject.Real.                                               *)
(***************************************************************************)

MaxCoord == 1      \* translations have coordinates 0..MaxCoord

QuarterTurns == {0, 1, 2, 3}

Placements == [rot : QuarterTurns, x : 0..MaxCoord, y : 0..MaxCoord]

IdentityPlacement == [rot |-> 0, x |-> 0, y |-> 0]

\* The vector (x, y) turned by r quarter turns.
Rotated(r, x, y) ==
    CASE r = 0 -> <<x, y>>
      [] r = 1 -> <<0 - y, x>>
      [] r = 2 -> <<0 - x, 0 - y>>
      [] r = 3 -> <<y, 0 - x>>

\* Placement.multVec: the image of the point pt.
multVec(a, pt) ==
    <<a.x + Rotated(a.rot, pt[1], pt[2])[1], a.y + Rotated(a.rot, pt[1], pt[2])[2]>>

\* a * b of two placements: b first, then a.
Multiply(a, b) ==
    [rot |-> (a.rot + b.rot) % 4,
     x |-> a.x + Rotated(a.rot, b.x, b.y)[1],
     y |-> a.y + Rotated(a.rot, b.x, b.y)[2]]

\* utils.get_placement: the world placement of an object.
get_placement(o) == o.world

NoJointXml == [tag |-> "", name |-> "", type |-> "", children |-> <<>>]

\* The outcome of a call of a Joint method: the exception it raised ("no"
\* for a return), the attribute an AttributeError names, and the returned
\* placement or element.
CallResult(op, raised, missing, placement, xml) ==
    [op |-> op, raised |-> raised, missing |-> missing,
     placement |-> placement, xml |-> xml]

\* Joint.get_joint_placement with the operands of line 56 exchanged.
get_joint_placement_exchanged(j) ==
    IF ~j.Parent.set \/ ~j.Parent.attr
    THEN CallResult("get_joint_placement", "AttributeError", "LinkedObject",
                    IdentityPlacement, NoJointXml)
    ELSE IF ~j.Parent.linked
    THEN CallResult("get_joint_placement", "AttributeError", "Real",
                    IdentityPlacement, NoJointXml)
    ELSE IF j.Parent.Real = <<>>
    THEN CallResult("get_joint_placement", "IndexError", "", IdentityPlacement, NoJointXml)
    ELSE CallResult("get_joint_placement", "no", "",
                    Multiply(j.Origin, get_placement(j.Parent.Real[1])), NoJointXml)

\* Joint.get_joint_placement: the attribute LinkedObject of None (Parent
\* unset) or of an object that has none, and Real of None (LinkedObject
\* unset) raise AttributeError, which names the attribute; Real[0] of an
\* empty list raises IndexError.
get_joint_placement(j) ==
    IF ~j.Parent.set \/ ~j.Parent.attr
    THEN CallResult("get_joint_placement", "AttributeError", "LinkedObject",
                    IdentityPlacement, NoJointXml)
    ELSE IF ~j.Parent.linked
    THEN CallResult("get_joint_placement", "AttributeError", "Real",
                    IdentityPlacement, NoJointXml)
    ELSE IF j.Parent.Real = <<>>
    THEN CallResult("get_joint_placement", "IndexError", "", IdentityPlacement, NoJointXml)
    ELSE CallResult("get_joint_placement", "no", "",
                    Multiply(get_placement(j.Parent.Real[1]), j.Origin), NoJointXml)

\* The attributes of a Joint instance: self.joint (lines 24, 45) and the
\* class attributes type and type_enum (lines 17, 20).
JointAttributes == {"joint", "type", "type_enum"}

type_enum == <<"fixed", "revolute", "prismatic">>

\* utils.valid_urdf_name: the name with the characters that URDF does not
\* allow in a name replaced.
valid_urdf_name(name) ==
    CASE name = "my joint" -> "my_joint"
      [] name = "base link" -> "base_link"
      [] OTHER -> name

\* An XML element <tag attr="text"/>; the origin element carries the
\* placement it serializes.
Element(tag, attr, text, placement) ==
    [tag |-> tag, attr |-> attr, text |-> text, placement |-> placement]

\* export_urdf.urdf_origin_from_placement
urdf_origin_from_placement(p) == Element("origin", "xyz rpy", "", p)

\* The exception of reading self.<attr> of line 60 or 64 when the instance
\* has no such attribute.
ExportRaised(attr) ==
    CallResult("export_urdf", "AttributeError", attr, IdentityPlacement, NoJointXml)

\* Lines 59-66 when self.name and self.origin can be read: lines 62 and 63
\* parse string literals that are no f-strings, so the text in braces is
\* the attribute value.
ExportReturned(name, type, origin) ==
    CallResult("export_urdf", "no", "", IdentityPlacement,
        [tag |-> "joint", name |-> valid_urdf_name(name), type |-> type,
              children |-> <<Element("parent", "joint",
                                     "{valid_urdf_name(self.parent.Label)}",
                                     IdentityPlacement),
                             Element("child", "joint",
                                     "{valid_urdf_name(self.child.Label)}",
                                     IdentityPlacement),
                             urdf_origin_from_placement(origin),
                             Element("axis", "xyz", "0 0 1", IdentityPlacement)>>])

\* Joint.export_urdf.  self.name (line 60) and self.origin (line 64) are
\* attributes of the Joint instance, which has none of these names; the
\* joint object's Label and Origin are not what the lines read.
export_urdf(j) ==
    IF "name" \notin JointAttributes THEN ExportRaised("name")
    ELSE IF "origin" \notin JointAttributes THEN ExportRaised("origin")
    ELSE ExportReturned(j.Label, j.Type, j.Origin)

\* A reference property (App::PropertyLink) that is not set.
Unset == [set |-> FALSE, attr |-> FALSE, linked |-> FALSE, Label |-> "", Real |-> <<>>]

\* The joint object after Joint.__init__: Type is the first entry of
\* type_enum (line 33), Parent and Child are unset, Origin is the identity.
NewJoint ==
    [Label |-> "Joint", Type |-> type_enum[1], Parent |-> Unset, Child |-> Unset,
     Origin |-> IdentityPlacement]

NoCall == CallResult("none", "no", "", IdentityPlacement, NoJointXml)

(***************************************************************************)
(* The state machine                                                       *)
(***************************************************************************)

\* The current state as a record, with the passes run by the operation in
\* progress.  The attributes previous_show_* are written by onBeforeChange
\* and read by nothing; they are kept for the length of one operation.
Cur == [props |-> props, flags |-> flags,
        objs |-> objs, group |-> group, rgroup |-> robotGroup, passes |-> <<>>,
        previous |-> [p \in {} |-> FALSE]]

\* The state st becomes the next state, as the result of one more operation
\* on the robot (makeRobot, a restore, an assignment of a property,
\* addObject, a recompute); the user makes at most MaxOps of them.
Commit(st) ==
    /\ ops < MaxOps
    /\ ops' = ops + 1
    /\ props' = st.props
    /\ flags' = st.flags
    /\ objs' = st.objs
    /\ group' = st.group
    /\ robotGroup' = st.rgroup
    /\ log' = st.passes
    /\ UNCHANGED <<joint, called>>

\* The lists of the links are filled before the robot is made: any entries
\* <<link, lod, source>>, at most MaxTotal of them, each appended to the list
\* of its link and level of detail.
Entries == UNION {[1..n -> Links \X Lods \X Sources] : n \in 0..MaxTotal}

ListsOf(es) ==
    [l \in Links |-> [lod \in Lods |->
        LET f == SelectSeq(es, LAMBDA e : e[1] = l /\ e[2] = lod)
        IN  [k \in 1..Len(f) |-> f[k][3]]]]

Init ==
    /\ hasRobot = FALSE
    /\ props = {}
    /\ flags = [p \in FlagProps |-> FALSE]
    /\ robotGroup = <<>>
    /\ \E es \in Entries : lists = ListsOf(es)
    /\ objs = {}
    /\ group = [l \in Links |-> <<>>]
    /\ log = <<>>
    /\ ops = 0
    /\ joint = NewJoint
    /\ called = NoCall

\* doc.recompute() of line 252 for the robot object: Robot.execute, which
\* runs one pass.
recompute(st, ls) ==
    AfterPass(st, reset_group(st.props, st.flags, st.rgroup, ls, st.objs, st.group))

\* makeRobot: Robot.__init__ on the new object, then doc.recompute().
Construct ==
    /\ ~hasRobot
    /\ hasRobot' = TRUE
    /\ Commit(recompute(init_properties(Cur, TRUE, lists), lists))
    /\ UNCHANGED lists

\* Robot.onDocumentRestored
onDocumentRestored ==
    /\ hasRobot
    /\ Commit(init_properties(Cur, TRUE, lists))
    /\ UNCHANGED <<hasRobot, lists>>

\* robot.ShowReal / ShowVisual / ShowCollision = v
SetFlag(p, v) ==
    /\ hasRobot
    /\ p \in props
    /\ Commit(SetProperty(Cur, hasRobot, lists, p, v))
    /\ UNCHANGED <<hasRobot, lists>>

\* The order in which the members join robot.Group.
GroupOrder == <<L1, J1, L2>>

\* robot.addObject(m)
AddMember(m) ==
    /\ hasRobot
    /\ Len(robotGroup) < Len(GroupOrder)
    /\ m = GroupOrder[Len(robotGroup) + 1]
    /\ Commit(SetGroup(Cur, hasRobot, lists, Append(robotGroup, m)))
    /\ UNCHANGED <<hasRobot, lists>>

\* Robot.execute (document recompute)
execute ==
    /\ hasRobot
    /\ Commit(recompute(Cur, lists))
    /\ UNCHANGED <<hasRobot, lists>>

\* The entries of a list without the i-th.
Without(s, i) == [k \in 1..(Len(s) - 1) |-> IF k < i THEN s[k] ELSE s[k + 1]]

\* An edit of link.Real / link.Visual / link.Collision that takes the i-th
\* entry out (no notification of the robot).
RemoveEntry(l, lod, i) ==
    /\ i \in 1..Len(lists[l][lod])
    /\ lists' = [lists EXCEPT ![l][lod] = Without(@, i)]
    /\ log' = <<>>
    /\ UNCHANGED <<hasRobot, props, flags, robotGroup, objs, group, ops, joint, called>>

Next ==
    \/ Construct
    \/ onDocumentRestored
    \/ \E p \in FlagProps, v \in BOOLEAN : SetFlag(p, v)
    \/ \E m \in Members : AddMember(m)
    \/ execute
    \/ \E l \in Links, lod \in Lods, i \in 1..MaxTotal : RemoveEntry(l, lod, i)

Spec == Init /\ [][Next]_vars

(***************************************************************************)
(* The calls of the Joint methods on a joint with any property values      *)
(***************************************************************************)

JointLabels == {"shoulder", "my joint"}

\* The objects a Real list can hold, by their world placement.
SourceObjects == {[world |-> p] : p \in Placements}

\* The Real lists of a link: empty, one object, or two of them.
RealLists ==
    {<<>>} \cup {<<o>> : o \in SourceObjects}
           \cup {<<o, [world |-> IdentityPlacement]>> : o \in SourceObjects}

\* joint.Parent: unset, an object without the attribute LinkedObject, an
\* object whose LinkedObject is unset, or an object whose LinkedObject is a
\* link with a Real list.
ParentRefs ==
    {Unset,
     [set |-> TRUE, attr |-> FALSE, linked |-> FALSE, Label |-> "base link", Real |-> <<>>],
     [set |-> TRUE, attr |-> TRUE, linked |-> FALSE, Label |-> "base link", Real |-> <<>>]}
        \cup {[set |-> TRUE, attr |-> TRUE, linked |-> TRUE, Label |-> "base link",
               Real |-> r] : r \in RealLists}

ChildRefs ==
    {Unset,
     [set |-> TRUE, attr |-> TRUE, linked |-> TRUE, Label |-> "arm", Real |-> <<>>]}

Joints ==
    [Label : JointLabels, Type : Range(type_enum), Parent : ParentRefs,
     Child : ChildRefs, Origin : Placements]

robotVars == <<hasRobot, props, flags, robotGroup, lists, objs, group, log, ops>>

JointInit ==
    /\ hasRobot = FALSE
    /\ props = {}
    /\ flags = [p \in FlagProps |-> FALSE]
    /\ robotGroup = <<>>
    /\ lists = ListsOf(<<>>)
    /\ objs = {}
    /\ group = [l \in Links |-> <<>>]
    /\ log = <<>>
    /\ ops = 0
    /\ joint \in Joints
    /\ called = NoCall

\* joint.Proxy.get_joint_placement()
CallGetJointPlacement ==
    /\ called' = get_joint_placement(joint)
    /\ UNCHANGED <<robotVars, joint>>

\* joint.Proxy.export_urdf()
CallExportUrdf ==
    /\ called' = export_urdf(joint)
    /\ UNCHANGED <<robotVars, joint>>

JointNext == CallGetJointPlacement \/ CallExportUrdf

JointSpec == JointInit /\ [][JointNext]_vars

(***************************************************************************)
(* Properties                                                              *)
(***************************************************************************)

Names(ob) == {p.name : p \in ob}

\* The source objects the members of a link's Group are bound to.
Bindings(ob, g) == {Obj(ob, g[i]).linked : i \in 1..Len(g)}

\* The source objects the enabled flags demand a proxy for in link l.
Demanded(ls, fl, l) ==
    UNION {Range(ls[l][Stages[k][2]]) : k \in {i \in 1..Len(Stages) : fl[Stages[i][1]]}}

RobotLinks == Range(get_links(robotGroup))

\* A pass has just run to its end.
PassCompleted == log # <<>> /\ log[Len(log)].outcome = "done"

\* C1: after a reset_group call that ran to its end with the three flag
\* properties present, the Group of every Link of robot.Group holds exactly
\* one existing proxy for every source object the enabled flags demand
\* (link.Real if ShowReal, link.Visual if ShowVisual, link.Collision if
\* ShowCollision) and nothing else.
C1_ExactProxySet ==
    PassCompleted =>
        \A l \in RobotLinks :
            /\ Range(group[l]) \subseteq Names(objs)
            /\ Bindings(objs, group[l]) = Demanded(lists, flags, l)
            /\ Len(group[l]) = Cardinality(Demanded(lists, flags, l))

\* A completed pass that created a demanded proxy and destroyed a stale one.
C1_Witness ==
    /\ PassCompleted
    /\ log[Len(log)].created > 0
    /\ log[Len(log)].destroyed > 0
    /\ \E l \in RobotLinks : group[l] # <<>>

\* C2: in every reachable state (any sequence of passes, flag changes and
\* list edits), for every link and every source object at most one member
\* of the link's Group has that source object as its LinkedObject.
C2_AtMostOneProxyPerSource ==
    \A l \in Links : \A o \in Sources :
        Cardinality({i \in 1..Len(group[l]) : Obj(objs, group[l][i]).linked = o}) <= 1

\* A source object listed in two enabled categories of a link (or twice in
\* one enabled list) after a pass that reused its proxy.
C2_Witness ==
    /\ log # <<>>
    /\ log[Len(log)].reused > 0
    /\ \E l \in RobotLinks : \E o \in Sources :
          /\ o \in Bindings(objs, group[l])
          /\ \/ /\ flags["ShowReal"] /\ flags["ShowVisual"]
                /\ o \in Range(lists[l]["real"]) \cap Range(lists[l]["visual"])
             \/ /\ flags["ShowReal"]
                /\ Cardinality({i \in 1..Len(lists[l]["real"]) : lists[l]["real"][i] = o}) > 1

\* The pass reset_group would run on the current state.
NextPass == reset_group(props, flags, robotGroup, lists, objs, group)

\* C3: reset_group called again right after a reset_group call, with flags,
\* Group and lists unchanged, leaves the proxies as the first call left them:
\* the same objects with the same names, sources and placements in the same
\* Groups, nothing created and nothing destroyed.
C3_Idempotent ==
    (hasRobot /\ log # <<>>) =>
        /\ NextPass.objs = objs
        /\ NextPass.group = group
        /\ NextPass.pass.created = 0
        /\ NextPass.pass.destroyed = 0

\* C4: a reset_group call destroys every proxy of a link's Group that no
\* enabled flag demands, and every proxy that an enabled flag still demands
\* is the same object after the call, still in its Group and still the only
\* proxy of its source there.
C4_GarbageCollected ==
    (hasRobot /\ ~Uninitialized(props)) =>
        \A l \in RobotLinks : \A i \in 1..Len(group[l]) :
            IF Obj(objs, group[l][i]).linked \in Demanded(lists, flags, l)
            THEN /\ Obj(objs, group[l][i]) \in NextPass.objs
                 /\ Cardinality({j \in 1..Len(NextPass.group[l]) :
                        Obj(NextPass.objs, NextPass.group[l][j]).linked
                            = Obj(objs, group[l][i]).linked}) = 1
                 /\ group[l][i] \in Range(NextPass.group[l])
            ELSE group[l][i] \notin Names(NextPass.objs)

\* robot.ShowVisual = False on the current state.
VisualDisabled == SetProperty(Cur, hasRobot, lists, "ShowVisual", FALSE)

\* The proxies of the links' Groups that are gone after it.
RemovedByDisable ==
    current_linked_objects(robotGroup, group) \ Names(VisualDisabled.objs)

\* The proxies whose source no flag but ShowVisual demands.
OnlyVisualDemands ==
    UNION {{group[l][i] : i \in {j \in 1..Len(group[l]) :
                Obj(objs, group[l][j]).linked
                    \notin Demanded(lists, [flags EXCEPT !["ShowVisual"] = FALSE], l)}}
           : l \in RobotLinks}

\* The proxies created for the 'visual' category.
CreatedForVisual ==
    {id \in current_linked_objects(robotGroup, group) : Obj(objs, id).label[1] = "visual"}

CanDisableVisual == hasRobot /\ "ShowVisual" \in props /\ flags["ShowVisual"]

\* C5 as stated: with ShowVisual set, setting it to false and reconciling
\* removes exactly the proxies that were created for the 'visual' category
\* (stated for the states a completed pass has left).
C5_RemovesVisualCreated ==
    (CanDisableVisual /\ PassCompleted) => RemovedByDisable = CreatedForVisual

\* C5 amended: with ShowVisual set, setting it to false and reconciling
\* removes only proxies whose source object no still-enabled flag demands
\* for their link, whatever category they were created for; a pass that
\* runs to its end removes all of them, a pass left by an exception none.
C5_RemovesUndemanded ==
    CanDisableVisual =>
        /\ RemovedByDisable \subseteq OnlyVisualDemands
        /\ VisualDisabled.passes[1].outcome = "done" => RemovedByDisable = OnlyVisualDemands
        /\ VisualDisabled.passes[1].outcome = "raised" => RemovedByDisable = {}
        /\ VisualDisabled.passes[1].outcome # "uninit"

\* ShowVisual has been disabled and the pass ran to its end; a proxy created
\* for 'visual' is kept because ShowReal demands its source, and a proxy
\* whose source nothing demands any more is gone.
C5_Witness ==
    /\ ~flags["ShowVisual"] /\ flags["ShowReal"]
    /\ Len(log) = 1 /\ log[1].outcome = "done" /\ log[1].reused > 0
    /\ \E l \in RobotLinks : \E i \in 1..Len(group[l]) :
          /\ Obj(objs, group[l][i]).label[1] = "visual"
          /\ Obj(objs, group[l][i]).linked \in Range(lists[l]["real"])
          /\ Obj(objs, group[l][i]).linked \in Range(lists[l]["visual"])

\* robot.ShowVisual = False, then robot.ShowVisual = True.
VisualRoundTrip ==
    SetProperty([VisualDisabled EXCEPT !.passes = <<>>], hasRobot, lists, "ShowVisual", TRUE)

\* C6: after a reconciliation with ShowVisual set, disabling ShowVisual and
\* enabling it again (each followed by its pass, nothing else changed)
\* leaves every link with proxies of the same source objects as before.
C6_RoundTrip ==
    (CanDisableVisual /\ log # <<>>) =>
        \A l \in RobotLinks :
            Bindings(VisualRoundTrip.objs, VisualRoundTrip.group[l])
                = Bindings(objs, group[l])

\* The pass reset_group would run on the current state if the robot object
\* had only the flag properties ps.
PassWith(ps) == reset_group(ps, flags, robotGroup, lists, objs, group)

\* C7: a reset_group pass on a robot object that lacks one of ShowReal,
\* ShowVisual, ShowCollision returns at its guard: it creates nothing,
\* destroys nothing, changes no Group and raises nothing.  This holds for
\* the passes that init_properties starts before all three exist, and in
\* every reachable state for every incomplete set of the properties.
C7_UninitializedNoOp ==
    /\ \A i \in 1..Len(log) :
          log[i].missing =>
              /\ log[i].outcome = "uninit"
              /\ log[i].created = 0
              /\ log[i].destroyed = 0
    /\ \A ps \in (SUBSET FlagProps) \ {FlagProps} :
          /\ PassWith(ps).pass.outcome = "uninit"
          /\ PassWith(ps).objs = objs
          /\ PassWith(ps).group = group
          /\ PassWith(ps).rgroup = robotGroup

\* makeRobot has just made a new robot: the passes started by ShowReal and
\* ShowVisual ran before ShowCollision existed, the ones started by
\* ShowCollision and by the recompute after it.
C7_Witness ==
    /\ Len(log) = Len(Defaults) + 1
    /\ log[1].missing /\ log[2].missing /\ ~log[3].missing /\ ~log[4].missing
    /\ log[1].outcome = "uninit" /\ log[2].outcome = "uninit"
    /\ flags["ShowReal"]

\* C8: a reset_group pass leaves robot.Group (membership and order) and its
\* members that are no Links as they are; every object it destroys was in
\* the Group of a Link of robot.Group, and every object it creates is in
\* the Group of a Link of robot.Group after it.
C8_OnlyLinkGroups ==
    hasRobot =>
        /\ NextPass.rgroup = robotGroup
        /\ rest(NextPass.rgroup) = rest(robotGroup)
        /\ Names(objs) \ Names(NextPass.objs)
              \subseteq current_linked_objects(robotGroup, group)
        /\ Names(NextPass.objs) \ Names(objs)
              \subseteq current_linked_objects(NextPass.rgroup, NextPass.group)

\* C9: no pass started by Robot.onChanged is re-entered by a notification of
\* a change the pass itself makes, and every pass ends (at its guard, at its
\* end or by an exception) inside the operation that started it: an
\* operation runs one pass for each notified property (and makeRobot one
\* more, for its recompute) and no more.
C9_NoReentry ==
    /\ Len(log) <= Len(Defaults) + 1
    /\ Len(log) = Len(Defaults) + 1 => log[1].missing
    /\ \A i \in 1..Len(log) :
          /\ log[i].reentries = 0
          /\ log[i].outcome \in {"uninit", "done", "raised"}

\* A single pass that created and destroyed proxies in the Groups of two
\* links or more than one proxy in one.
C9_Witness ==
    /\ Len(log) = 1
    /\ log[1].created + log[1].destroyed >= 2
    /\ log[1].created >= 1
    /\ log[1].reentries = 0

\* _add_links_lod(L1, [o], 'real') on the current state.
AddOneSource(o) ==
    _add_links_lod(StartOfPass(robotGroup, objs, group), L1, <<o>>, "real")

\* C10: creating the proxy of a source object with more than one parent
\* raises no exception, emits exactly one warning and gives the proxy the
\* identity placement.
C10_AmbiguousRecoverable ==
    \A o \in Sources :
        (/\ Len(Parents(o)) > 1
         /\ L1 \in RobotLinks
         /\ o \notin Bindings(objs, group[L1])) =>
            /\ ~AddOneSource(o).raised
            /\ AddOneSource(o).warns = 1
            /\ Len(AddOneSource(o).created) = 1
            /\ \A p \in AddOneSource(o).objs \ objs : p.placement = Identity

\* Every source object a flag demands for link l has exactly one parent.
AllAttachable(l) == \A o \in Demanded(lists, flags, l) : Len(Parents(o)) = 1

\* C11: a failure at one source object or link does not abort the pass: no
\* exception leaves reset_group, and after the pass every link whose own
\* demanded source objects raise no failure is synchronized (it has the
\* proxies of its demanded sources and its stale proxies are deleted).
C11_BestEffort ==
    (log # <<>> /\ log[Len(log)].outcome # "uninit") =>
        /\ log[Len(log)].outcome # "raised"
        /\ \A l \in RobotLinks :
              AllAttachable(l) => Bindings(objs, group[l]) = Demanded(lists, flags, l)

\* The operation st ran exactly the pass post (one pass, with its effects)
\* and recorded the flag values of before the change.
RanPass(st, post) ==
    /\ Len(st.passes) = 1
    /\ st.passes[1] = post.pass
    /\ st.objs = post.objs
    /\ st.group = post.group
    /\ st.previous = flags

\* C12: a change of ShowReal, ShowVisual, ShowCollision or Group of an
\* initialized robot runs exactly one pass, and this pass is the one that
\* reset_group computes from the value after the change; the notification
\* before the change runs no pass and records the previous flag values.
C12_PostMutationPass ==
    (hasRobot /\ props = FlagProps) =>
        /\ \A p \in FlagProps : \A v \in BOOLEAN :
              RanPass(SetProperty(Cur, hasRobot, lists, p, v),
                      reset_group(props, [flags EXCEPT ![p] = v], robotGroup,
                                  lists, objs, group))
        /\ \A m \in Members \ Range(robotGroup) :
              RanPass(SetGroup(Cur, hasRobot, lists, Append(robotGroup, m)),
                      reset_group(props, flags, Append(robotGroup, m),
                                  lists, objs, group))

\* ShowVisual has just been set on a robot that showed nothing: the pass
\* saw the new value and created the 'visual' proxies.
C12_Witness ==
    /\ Len(log) = 1 /\ log[1].outcome = "done" /\ log[1].created > 0
    /\ flags["ShowVisual"] /\ ~flags["ShowReal"] /\ ~flags["ShowCollision"]
    /\ \E l \in RobotLinks : \E i \in 1..Len(group[l]) :
          Obj(objs, group[l][i]).label[1] = "visual"

\* C13: export_urdf of a joint whose Parent or Child is unset fails with a
\* condition that reports the missing endpoint, and returns no element.
C13_MissingEndpoint ==
    (called.op = "export_urdf" /\ (~joint.Parent.set \/ ~joint.Child.set)) =>
        /\ called.raised # "no"
        /\ called.missing \in {"Parent", "Child", "parent", "child"}
        /\ called.xml = NoJointXml

\* C14: export_urdf of a joint with Parent and Child set returns a 'joint'
\* element with the sanitized joint name, the joint's Type, and the children
\* parent (sanitized label of Parent), child (sanitized label of Child),
\* origin (of joint.Origin) and axis (xyz "0 0 1"), in this order.
C14_ExportedElement ==
    (called.op = "export_urdf" /\ joint.Parent.set /\ joint.Child.set) =>
        /\ called.raised = "no"
        /\ called.xml.tag = "joint"
        /\ called.xml.name = valid_urdf_name(joint.Label)
        /\ called.xml.type = joint.Type
        /\ Len(called.xml.children) = 4
        /\ called.xml.children[1].tag = "parent"
        /\ called.xml.children[1].text = valid_urdf_name(joint.Parent.Label)
        /\ called.xml.children[2].tag = "child"
        /\ called.xml.children[2].text = valid_urdf_name(joint.Child.Label)
        /\ called.xml.children[3] = urdf_origin_from_placement(joint.Origin)
        /\ called.xml.children[4] = Element("axis", "xyz", "0 0 1", IdentityPlacement)

\* The proxy that AddOneSource(o) created is bound to o, belongs to the
\* Group of the link and has the placement pl.
CreatedWith(o, pl) ==
    /\ ~AddOneSource(o).raised
    /\ Len(AddOneSource(o).created) = 1
    /\ \A p \in AddOneSource(o).objs \ objs :
          /\ p.placement = pl
          /\ p.linked = o
          /\ p.name \in Range(AddOneSource(o).group[L1])

\* C15: the new proxy of a source object with no parent gets the identity
\* placement, the one of a source object with exactly one parent gets the
\* placement of the sub-object in this parent; in both cases the proxy is
\* created, bound to the source and added to the link.
C15_PlacementByParents ==
    \A o \in Sources :
        (/\ Len(Parents(o)) <= 1
         /\ L1 \in RobotLinks
         /\ o \notin Bindings(objs, group[L1])) =>
            CreatedWith(o, IF Parents(o) = <<>> THEN Identity ELSE Parents(o)[1])

\* _add_links_lod(l, <the list lod of l>, lod) called in the current state.
AddLinksOf(l, lod) ==
    _add_links_lod(StartOfPass(robotGroup, objs, group), l, lists[l][lod], lod)

\* The call w returned a list with one proxy of link l per element of
\* objects, the i-th bound to objects[i].
ReturnedProxiesOf(w, l, objects) ==
    /\ ~w.raised
    /\ Len(w.ret) = Len(objects)
    /\ \A i \in 1..Len(w.ret) :
          /\ w.ret[i] \in Range(w.group[l])
          /\ w.ret[i] \in DocNames(w.objs)
          /\ Obj(w.objs, w.ret[i]).linked = objects[i]

\* C16: _add_links_lod(link, objects, lod) returns a list as long as
\* objects whose i-th element is a proxy in link.Group bound to objects[i].
C16_ReturnsOnePerObject ==
    \A l \in RobotLinks : \A lod \in Lods :
        ReturnedProxiesOf(AddLinksOf(l, lod), l, lists[l][lod])

\* The call w, made in the current state, left every object of the document
\* as it was (name, label, binding, placement), the reused ones among them,
\* and reused only proxies that existed before it.
ReuseUnchanged(w) ==
    /\ objs \subseteq w.objs
    /\ \A i \in 1..Len(w.reused) :
          \/ w.reused[i] \in DocNames(objs)
          \/ w.reused[i] \in Range(w.created)

\* The same call again, on the document and the link as the call w left
\* them.
SecondCall(w, l, lod) ==
    _add_links_lod(StartOfPass(w.rgroup, w.objs, w.group), l, lists[l][lod], lod)

\* The second call w2 created nothing, changed nothing and returned what
\* the first call w returned.
SameAsFirst(w, w2) ==
    /\ w2.created = <<>>
    /\ w2.objs = w.objs
    /\ w2.group = w.group
    /\ ~w.raised => (~w2.raised /\ w2.ret = w.ret)

\* C17: _add_links_lod changes no proxy it reuses (name, label, binding and
\* placement stay, also when the label is of another category), and a
\* second call with the same list on the same link creates no proxy and
\* returns the same proxies.
C17_ReuseUnchanged ==
    \A l \in RobotLinks : \A lod \in Lods :
        /\ ReuseUnchanged(AddLinksOf(l, lod))
        /\ SameAsFirst(AddLinksOf(l, lod), SecondCall(AddLinksOf(l, lod), l, lod))

\* The points at which two placements are compared.
TestPoints == {<<0, 0>>, <<1, 0>>, <<0, 1>>}

\* The world placement of the first Real object of the joint's parent.
ParentPlacement == get_placement(joint.Parent.Real[1])

\* C18: get_joint_placement returns the world placement of the first Real
\* object of the parent composed with joint.Origin, the origin applied
\* first: the image of a point is the parent placement's image of the
\* origin's image of the point.
C18_ParentTimesOrigin ==
    called.op = "get_joint_placement" =>
        /\ called.raised = "no" <=>
              (/\ joint.Parent.set /\ joint.Parent.attr /\ joint.Parent.linked
               /\ joint.Parent.Real # <<>>)
        /\ called.raised = "no" =>
              /\ called.placement = Multiply(ParentPlacement, joint.Origin)
              /\ \A pt \in TestPoints :
                    multVec(called.placement, pt)
                        = multVec(ParentPlacement, multVec(joint.Origin, pt))

\* get_joint_placement returned for a parent with two Real objects, whose
\* first one has a placement that does not commute with the origin.
C18_Witness ==
    /\ called.op = "get_joint_placement"
    /\ called.raised = "no"
    /\ Len(joint.Parent.Real) = 2
    /\ ParentPlacement # get_placement(joint.Parent.Real[2])
    /\ Multiply(ParentPlacement, joint.Origin) # Multiply(joint.Origin, ParentPlacement)
    /\ called.placement # IdentityPlacement

\* The place of a category in the order of lines 157-167.
StageOf(lod) == CHOOSE k \in 1..Len(Stages) : Stages[k][2] = lod

\* In the pass w every creation and reuse comes before every destruction,
\* and the creations and reuses come in the order real, visual, collision.
CreationFirst(w) ==
    \A i \in 1..Len(w.steps) : \A j \in (i + 1)..Len(w.steps) :
        /\ w.steps[i][1] = "destroy" => w.steps[j][1] = "destroy"
        /\ (w.steps[i][1] # "destroy" /\ w.steps[j][1] # "destroy") =>
              StageOf(w.steps[i][2]) <= StageOf(w.steps[j][2])

\* The pass w, run with the flags fl, destroyed only proxies of the
\* snapshot of before the pass, none that it created or reused; and if it
\* ran to its end, every proxy of the snapshot that _existing_link finds
\* for a source a flag of fl demands was reused and is still there.
SnapshotBefore(w, fl) ==
    /\ w.destroyed \subseteq current_linked_objects(robotGroup, group)
    /\ w.destroyed \cap (Range(w.created) \cup Range(w.reused)) = {}
    /\ ~w.raised =>
          \A l \in RobotLinks : \A o \in Demanded(lists, fl, l) :
              _existing_link(objs, group[l], o) # None =>
                  /\ _existing_link(objs, group[l], o) \in Range(w.reused)
                  /\ Obj(objs, _existing_link(objs, group[l], o)) \in w.objs

\* C19: in one pass every creation and reuse (real, visual, collision, in
\* this order) comes before every destruction; the snapshot of the proxies
\* to compare with is of before the first creation; a proxy that a
\* category no longer demands and another one does is reused, not
\* destroyed.
C19_CreationBeforeDestruction ==
    (hasRobot /\ props = FlagProps) =>
        \A p \in FlagProps : \A v \in BOOLEAN :
            /\ CreationFirst(PassWork(props, [flags EXCEPT ![p] = v], robotGroup,
                                      lists, objs, group))
            /\ SnapshotBefore(PassWork(props, [flags EXCEPT ![p] = v], robotGroup,
                                       lists, objs, group),
                              [flags EXCEPT ![p] = v])

\* The last pass created a proxy and destroyed another one.
C19_Witness ==
    /\ log # <<>>
    /\ log[Len(log)].outcome = "done"
    /\ log[Len(log)].created > 0
    /\ log[Len(log)].destroyed > 0

\* The last operation was onDocumentRestored: the three assignments of
\* init_properties, each with its pass, on a robot that had the flag
\* properties already.
Restored == Len(log) = Len(Defaults) /\ ~log[1].missing

\* C20: after onDocumentRestored the flags have the values that
\* init_properties assigns (ShowReal true, ShowVisual and ShowCollision
\* false), whatever they were before, and every link of the robot has the
\* proxies of its Real list and no others.
C20_RestoreResetsFlags ==
    Restored =>
        /\ \A i \in 1..Len(Defaults) : flags[Defaults[i][1]] = Defaults[i][2]
        /\ \A l \in RobotLinks : Bindings(objs, group[l]) = Range(lists[l]["real"])

====
